---- MODULE Spec2Model ----
(***************************************************************************)
(* Custom cursor with snap-to-focusable and keyboard navigation.           *)
(*                                                                         *)
(* InputManager (frontend/js/classes/InputManager.js) driving a Cursor     *)
(* (Cursor.js, the revision with setTargetPosition) whose Position         *)
(* (currentPos/targetPos/easeFactor) is eased with lerp, over a fixed      *)
(* array of Focusable objects (the revision with getIdentifier).           *)
(*                                                                         *)
(* Numbers: every JavaScript number that is a coordinate or a distance is  *)
(* a fixed-point integer with Scale units per pixel.  Scale is chosen so   *)
(* that lerp's epsilon (0.0001 px) is Epsilon units.                       *)
(* Object references: a Focusable is referred to by its 0-based place in   *)
(* the focusables array; Null and Undefined are the two JavaScript empty   *)
(* values, NaN the not-a-number index.                                     *)
(***************************************************************************)
EXTENDS Integers, Sequences, FiniteSets, TLC

VARIABLES
  focusables,           \* InputManager.focusables: sequence of [rect, id]
  ID,                   \* module-level identifier counter of Focusable
  mode,                 \* InputManager.mode
  currentIndex,         \* InputManager.currentIndex
  focusedElement,       \* InputManager.focusedElement
  actualMousePosition,  \* InputManager.actualMousePosition
  classList,            \* element.classList of every focusable element
  cursorFocusedElement, \* Cursor.focusedElement
  currentPos,           \* Cursor.position.currentPos
  targetPos,            \* Cursor.position.targetPos
  thrown,               \* the last handler ended by an uncaught TypeError
  emitted,              \* events the last handler emitted (InputManager or Cursor)
  effects,              \* the focus calls and writes of the last handler, in order
  last,                 \* the last handler run, its input and the state before it
  hist,                 \* the signals (pointer moves, keys) received since construction
  lerpCall,             \* the arguments of a call of lerp
  lerpResult,           \* <<>> before the call returns, <<value>> after
  allocated,            \* the object the last `new` expression allocated
  documentListeners,    \* the listeners registered on document, in order
  hub,                  \* an EventEmitter: its events table and its callbacks' state
  calls,                \* the callback invocations since construction, in order
  steps                 \* number of handlers run

vars == <<focusables, ID, mode, currentIndex, focusedElement, actualMousePosition,
          classList, cursorFocusedElement, currentPos, targetPos, thrown, emitted,
          effects, last, hist, lerpCall, lerpResult, allocated, documentListeners, hub,
          calls, steps>>

-----------------------------------------------------------------------------
(* Bounds *)

MaxSteps == 3

-----------------------------------------------------------------------------
(* Numbers *)

EpsilonInv == 10000

Scale == 10 * EpsilonInv

Px(n) == n * Scale

Epsilon == Scale \div EpsilonInv

EaseNum == 1

EaseDen == 5

Abs(n) == IF n < 0 THEN 0 - n ELSE n

\* n/d rounded to the nearest unit (d > 0)
RoundDiv(n, d) == (2 * n + d) \div (2 * d)

Base == 10 * 10 * 10

Limbs(n) == <<n % Base, (n \div Base) % Base, n \div (Base * Base)>>

\* dx*dx + dy*dy as <<high, low>> with value high * Base^3 + low, low < Base^3
SqSum(dx, dy) ==
  LET a == Limbs(Abs(dx))
      b == Limbs(Abs(dy))
      c0 == a[1] * a[1] + b[1] * b[1]
      c1 == 2 * a[1] * a[2] + 2 * b[1] * b[2]
      c2 == 2 * a[1] * a[3] + a[2] * a[2] + 2 * b[1] * b[3] + b[2] * b[2]
      c3 == 2 * a[2] * a[3] + 2 * b[2] * b[3]
      c4 == a[3] * a[3] + b[3] * b[3]
      d0 == c0 % Base
      e1 == c1 + c0 \div Base
      d1 == e1 % Base
      e2 == c2 + e1 \div Base
      d2 == e2 % Base
      e3 == c3 + e2 \div Base
      d3 == e3 % Base
      e4 == c4 + e3 \div Base
  IN  <<d3 + Base * e4, d0 + Base * d1 + Base * Base * d2>>

SqLess(p, q) == p[1] < q[1] \/ (p[1] = q[1] /\ p[2] < q[2])

\* Math.hypot(dx, dy) < Math.hypot(ex, ey)
HypotLess(dx, dy, ex, ey) == SqLess(SqSum(dx, dy), SqSum(ex, ey))

-----------------------------------------------------------------------------
(* utils.js *)

lerpSnapInclusive(start, end, tn, td, epsilon) ==
  LET result == start + RoundDiv(tn * (end - start), td)
  IN  IF Abs(result - end) <= epsilon THEN end ELSE result

lerpNoSnap(start, end, tn, td, epsilon) == start + RoundDiv(tn * (end - start), td)

lerp(start, end, tn, td, epsilon) ==
  LET result == start + RoundDiv(tn * (end - start), td)
  IN  IF Abs(result - end) < epsilon THEN end ELSE result

-----------------------------------------------------------------------------
(* JavaScript values *)

Null == -1

Undefined == -2

NaN == -3

Truthy(e) == e # Null /\ e # Undefined

\* a % n of JavaScript: NaN for n = 0, sign of the dividend otherwise
JsRem(a, n) ==
  IF a = NaN \/ n = NaN \/ n = 0 THEN NaN
  ELSE IF a >= 0 THEN a % n ELSE 0 - ((0 - a) % n)

JsAdd(a, b) == IF a = NaN \/ b = NaN THEN NaN ELSE a + b

DigitChar == <<"0", "1", "2", "3", "4", "5", "6", "7", "8", "9">>

RECURSIVE toString(_)
toString(n) ==
  IF n < 10 THEN DigitChar[n + 1]
  ELSE toString(n \div 10) \o DigitChar[(n % 10) + 1]

-----------------------------------------------------------------------------
(* Focusable *)

Len0 == Len(focusables)

Indices == 0 .. (Len0 - 1)

\* focusables[i] of JavaScript: undefined outside the array
ArrayAt(i) == IF i \in Indices THEN i ELSE Undefined

\* focusables.indexOf(element)
indexOf(element) == IF element \in Indices THEN element ELSE -1

getPosition(f) ==
  [x |-> lerp(focusables[f + 1].rect.right, focusables[f + 1].rect.left, 1, 2, Epsilon),
   y |-> lerp(focusables[f + 1].rect.top, focusables[f + 1].rect.bottom, 1, 2, Epsilon)]

getIdentifier(f) == focusables[f + 1].id

-----------------------------------------------------------------------------
(* The mutable state the handlers read and write, as one record *)

State ==
  [mode |-> mode, currentIndex |-> currentIndex, focusedElement |-> focusedElement,
   actualMousePosition |-> actualMousePosition, classList |-> classList,
   cursorFocusedElement |-> cursorFocusedElement, currentPos |-> currentPos,
   targetPos |-> targetPos, thrown |-> FALSE, emitted |-> <<>>, effects |-> <<>>]

\* an uncaught TypeError: the rest of the handler does not run
Throw(s) == [s EXCEPT !.thrown = TRUE]

\* the handler reaches a call or a write on target f
Effect(s, name, f) == [s EXCEPT !.effects = Append(@, <<name, f>>)]

-----------------------------------------------------------------------------
(* Cursor and Position *)

CursorSetTargetPosition(s, x, y) == [s EXCEPT !.targetPos = [x |-> x, y |-> y]]

CursorGetPosition(s) == s.currentPos

CursorSetFocusedElement(s, element) ==
  Effect([s EXCEPT !.cursorFocusedElement = element], "cursor.setFocusedElement", element)

CursorClearFocusedElement(s) ==
  Effect([s EXCEPT !.cursorFocusedElement = Null], "cursor.clearFocusedElement",
         s.cursorFocusedElement)

PositionUpdateNoSnap(s) ==
  [s EXCEPT !.currentPos =
     [x |-> lerpNoSnap(s.currentPos.x, s.targetPos.x, EaseNum, EaseDen, Epsilon),
      y |-> lerpNoSnap(s.currentPos.y, s.targetPos.y, EaseNum, EaseDen, Epsilon)]]

PositionUpdateFromOrigin(s) ==
  [s EXCEPT !.currentPos =
     [x |-> lerp(0, s.targetPos.x, EaseNum, EaseDen, Epsilon),
      y |-> lerp(0, s.targetPos.y, EaseNum, EaseDen, Epsilon)]]

PositionUpdate(s) ==
  [s EXCEPT !.currentPos =
     [x |-> lerp(s.currentPos.x, s.targetPos.x, EaseNum, EaseDen, Epsilon),
      y |-> lerp(s.currentPos.y, s.targetPos.y, EaseNum, EaseDen, Epsilon)]]

CursorUpdate(s) == PositionUpdate(s)

-----------------------------------------------------------------------------
(* InputManager *)

SNAP_DISTANCE == 24

NoHysteresis == SNAP_DISTANCE

UNSNAP_DISTANCE == 36

removeFocus(s, f) ==
  Effect([s EXCEPT !.classList[f + 1] = @ \ {"focused"}], "removeFocus", f)

\* this.focusedElement.onBlur?.() and onFocus?.(): the callback of target f,
\* when it has one, runs here
OptionalCall(s, name, f) == Effect(s, name, f)

clearFocusKeepClass(s) ==
  IF Truthy(s.focusedElement)
  THEN [OptionalCall(CursorClearFocusedElement(s), "onBlur", s.focusedElement)
          EXCEPT !.focusedElement = Null]
  ELSE s

clearFocusKeepCursor(s) ==
  IF Truthy(s.focusedElement)
  THEN LET s2 == removeFocus(s, s.focusedElement)
           s3 == OptionalCall(s2, "onBlur", s.focusedElement)
       IN  [s3 EXCEPT !.focusedElement = Null]
  ELSE s

clearFocusResetIndex(s) ==
  IF Truthy(s.focusedElement)
  THEN LET s1 == CursorClearFocusedElement(s)
           s2 == removeFocus(s1, s.focusedElement)
           s3 == OptionalCall(s2, "onBlur", s.focusedElement)
       IN  [s3 EXCEPT !.focusedElement = Null, !.currentIndex = 0]
  ELSE s

clearFocus(s) ==
  IF Truthy(s.focusedElement)
  THEN LET s1 == CursorClearFocusedElement(s)
           s2 == removeFocus(s1, s.focusedElement)
           s3 == OptionalCall(s2, "onBlur", s.focusedElement)
       IN  [s3 EXCEPT !.focusedElement = Null]
  ELSE s

setFocusedElementAlwaysClear(s, element) ==
  LET s1 == IF Truthy(s.focusedElement) THEN clearFocus(s) ELSE s
      s2 == Effect([s1 EXCEPT !.focusedElement = element], "focusedElement", element)
  IN  IF ~Truthy(element)
      THEN Throw(s2)
      ELSE LET s3 == Effect([s2 EXCEPT !.classList[element + 1] = @ \cup {"focused"}],
                            "classList.add", element)
               s4 == OptionalCall(s3, "onFocus", element)
               s5 == CursorSetFocusedElement(s4, s4.focusedElement)
           IN  [s5 EXCEPT !.currentIndex = indexOf(element)]

setFocusedElementNoIndex(s, element) ==
  LET s1 == IF Truthy(s.focusedElement) /\ s.focusedElement # element
            THEN clearFocus(s) ELSE s
      s2 == Effect([s1 EXCEPT !.focusedElement = element], "focusedElement", element)
  IN  IF ~Truthy(element)
      THEN Throw(s2)
      ELSE LET s3 == Effect([s2 EXCEPT !.classList[element + 1] = @ \cup {"focused"}],
                            "classList.add", element)
               s4 == OptionalCall(s3, "onFocus", element)
           IN  CursorSetFocusedElement(s4, s4.focusedElement)

setFocusedElement(s, element) ==
  LET s1 == IF Truthy(s.focusedElement) /\ s.focusedElement # element
            THEN clearFocus(s) ELSE s
      s2 == Effect([s1 EXCEPT !.focusedElement = element], "focusedElement", element)
  IN  IF ~Truthy(element)
      THEN Throw(s2)   \* this.focusedElement.element of undefined
      ELSE LET s3 == Effect([s2 EXCEPT !.classList[element + 1] = @ \cup {"focused"}],
                            "classList.add", element)
               s4 == OptionalCall(s3, "onFocus", element)
               s5 == CursorSetFocusedElement(s4, s4.focusedElement)
           IN  [s5 EXCEPT !.currentIndex = indexOf(element)]

setMode(s, m) == IF s.mode # m THEN [s EXCEPT !.mode = m] ELSE s

\* forEach over focusables[i..]: the running <<found, center, index>> minimum
RECURSIVE NearestFrom(_, _, _, _)
NearestFrom(i, x, y, best) ==
  IF i >= Len0 THEN best
  ELSE LET center == getPosition(i)
           closer == \/ ~best.found
                     \/ HypotLess(x - center.x, y - center.y, x - best.x, y - best.y)
       IN  NearestFrom(i + 1, x, y,
                       IF closer THEN [found |-> TRUE, x |-> center.x, y |-> center.y]
                       ELSE best)

getNearestFocusable(x, y) == NearestFrom(0, x, y, [found |-> FALSE, x |-> 0, y |-> 0])

getFocusableAtPosition(position) ==
  LET hits == {i \in Indices :
                 /\ Abs(getPosition(i).x - position.x) < Px(2)
                 /\ Abs(getPosition(i).y - position.y) < Px(2)}
  IN  IF hits = {} THEN Null
      ELSE CHOOSE i \in hits : \A j \in hits : i <= j

\* this.distanceTo(pos) < limit, limit in pixels
distanceToLess(s, pos, limit) ==
  LET current == CursorGetPosition(s)
  IN  HypotLess(pos.x - current.x, pos.y - current.y, Px(limit), 0)

\* lines 91-106: the part of handleMouse after the unsnap check
handleMouseSnap(s, x, y) ==
  LET nearest == getNearestFocusable(x, y)
      s1 == CursorSetTargetPosition(s, x, y)
  IN  IF nearest.found /\ distanceToLess(s1, nearest, SNAP_DISTANCE)
      THEN LET newFocusedElement == getFocusableAtPosition(nearest)
           IN  IF Truthy(newFocusedElement) /\ newFocusedElement # s1.focusedElement
               THEN setFocusedElement(s1, newFocusedElement)
               ELSE s1
      ELSE s1

handleMouseUnsnapNoReturn(s, x, y) == handleMouseSnap(clearFocus(s), x, y)

\* lines 85-87: focus is cleared and the handler returns
handleMouseUnsnap(s, x, y) == CursorSetTargetPosition(clearFocus(s), x, y)

\* lines 76-84: the pointer is farther than UNSNAP_DISTANCE from the focused element
farFromFocused(s, x, y) ==
  /\ Truthy(s.focusedElement)
  /\ LET focusedPos == getPosition(s.focusedElement)
     IN  HypotLess(Px(UNSNAP_DISTANCE), 0, x - focusedPos.x, y - focusedPos.y)

handleMouseModeLate(s, x, y) ==
  LET s2 == [s EXCEPT !.actualMousePosition = [x |-> x, y |-> y]]
  IN  IF farFromFocused(s2, x, y)
      THEN handleMouseUnsnap(s2, x, y)
      ELSE handleMouseSnap(setMode(s2, "mouse"), x, y)

handleMouse(s, x, y) ==
  LET s1 == setMode(s, "mouse")
      s2 == [s1 EXCEPT !.actualMousePosition = [x |-> x, y |-> y]]
  IN  IF farFromFocused(s2, x, y)
      THEN handleMouseUnsnap(s2, x, y)
      ELSE handleMouseSnap(s2, x, y)

nextIndexNoWrap(index, n) == JsAdd(index, 1)

\* line 213
nextIndex(index, n) == JsRem(JsAdd(index, 1), n)

prevIndexNoOffset(index, n) == JsRem(JsAdd(index, -1), n)

\* lines 216-218
prevIndex(index, n) == JsRem(JsAdd(JsAdd(index, -1), n), n)

\* lines 221-225: the identifiers as strings, in array order
idStrings == [i \in 1 .. Len0 |-> toString(getIdentifier(i - 1))]

findIndexOneBased(ids, targetId) ==
  IF \E i \in 1 .. Len(ids) : ids[i] = targetId
  THEN CHOOSE i \in 1 .. Len(ids) : ids[i] = targetId /\ \A j \in 1 .. (i - 1) : ids[j] # targetId
  ELSE -1

\* ids.findIndex(id => id === targetId): first 0-based match, or -1
findIndex(ids, targetId) ==
  IF \E i \in 1 .. Len(ids) : ids[i] = targetId
  THEN (CHOOSE i \in 1 .. Len(ids) :
          ids[i] = targetId /\ \A j \in 1 .. (i - 1) : ids[j] # targetId) - 1
  ELSE -1

navigate(s, key) ==
  IF key = "ArrowRight" \/ key = "Tab"
  THEN LET s1 == [s EXCEPT !.currentIndex = nextIndex(s.currentIndex, Len0)]
       IN  setFocusedElement(s1, ArrayAt(s1.currentIndex))
  ELSE IF key = "ArrowLeft"
  THEN LET s1 == [s EXCEPT !.currentIndex = prevIndex(s.currentIndex, Len0)]
       IN  setFocusedElement(s1, ArrayAt(s1.currentIndex))
  ELSE LET index == findIndex(idStrings, key)
       IN  IF index # -1
           THEN LET s1 == [s EXCEPT !.currentIndex = index]
                IN  setFocusedElement(s1, ArrayAt(s1.currentIndex))
           ELSE Throw(s)   \* this.removeFocus is not a function

handleInputModeFirst(s, key) ==
  LET s0 == setMode(s, "keyboard")
  IN  IF key = "Escape"
      THEN LET s1 == clearFocus(s0)
           IN  CursorSetTargetPosition(s1, s1.actualMousePosition.x, s1.actualMousePosition.y)
      ELSE navigate(s0, key)

handleInput(s, key) ==
  IF key = "Escape"
  THEN LET s1 == clearFocus(s)
       IN  CursorSetTargetPosition(s1, s1.actualMousePosition.x, s1.actualMousePosition.y)
  ELSE navigate(setMode(s, "keyboard"), key)

\* this.emit(event, payload) on the InputManager
emit(s, event, payload) == [s EXCEPT !.emitted = Append(@, <<event, payload>>)]

\* the keydown listener of initListeners
onKeydown(s, key) ==
  LET s1 == handleInput(s, key)
  IN  IF s1.thrown THEN s1 ELSE emit(s1, "input", key)

\* the mousemove listener of Cursor.initMouseEvents, whose "move" event
\* runs the InputManager's listener
onMousemove(s, x, y) == handleMouse(s, x, y)

-----------------------------------------------------------------------------
(* Inputs *)

Rect(l, t, r, b) == [left |-> Px(l), top |-> Px(t), right |-> Px(r), bottom |-> Px(b)]

\* the bounding boxes of the .focusable elements, in document order
Layouts ==
  { <<>>,
    <<Rect(-10, -10, 10, 10), Rect(90, -10, 110, 10)>>,
    <<Rect(-10, -10, 10, 10), Rect(90, -10, 110, 10), Rect(10, -10, 30, 10)>>,
    <<Rect(-10, -10, 10, 10), Rect(-9, -10, 11, 10)>> }

\* clientX, clientY of the pointer events, in pixels
Points == { <<10, 0>>, <<24, 0>>, <<30, 0>>, <<36, 0>>, <<40, 0>>, <<90, 0>>, <<20, 30>> }

Keys == { "ArrowRight", "Tab", "ArrowLeft", "Escape", "0", "1", "2", "9" }

-----------------------------------------------------------------------------
(* Construction *)

\* the instance new Focusable(element) builds from a host element with the
\* bounding box rect when the counter ID holds id: the element (its live
\* bounding box), the cached position, the identifier, and the text of the
\* span createIdentifier appends to the element
FocusableFields(rect, id) ==
  [rect |-> rect,
   position |-> [x |-> lerp(rect.right, rect.left, 1, 2, Epsilon),
                 y |-> lerp(rect.top, rect.bottom, 1, 2, Epsilon)],
   id |-> id,
   label |-> toString(id)]

\* new Focusable(element) for every element, in order: this.id = ID++
Construct(rects, firstId) ==
  [i \in 1 .. Len(rects) |-> FocusableFields(rects[i], firstId + (i - 1))]

NoObject == [class |-> "none", fields |-> {}, classes |-> {}]

\* the listeners Cursor.initMouseEvents registers on document
CursorListeners == <<"mouseleave", "mouseenter", "mousemove">>

\* the last object the DOMContentLoaded callback allocates
InputManagerObject ==
  [class |-> "InputManager",
   fields |-> {"events", "mode", "cursor", "focusables", "actualMousePosition",
               "currentIndex", "focusedElement", "SNAP_DISTANCE", "UNSNAP_DISTANCE"},
   classes |-> {}]

\* Cursor's listeners, then the keydown listener of InputManager.initListeners
ListenersAfterLoad == CursorListeners \o <<"keydown">>

\* the names of the events of an emitter
Events == {"e", "f"}

\* new EventEmitter(): this.events = {}.  An absent key and an empty array
\* are one value, <<>>: off deletes the key when its array becomes empty.
\* fired and wrappers belong to the callbacks: which one-shot behaviours have
\* run, and how many onceWrapper closures exist.
NewEmitter == [events |-> [e \in Events |-> <<>>], fired |-> {}, wrappers |-> 0]

\* the fields the constructors of InputManager and Cursor assign, and the
\* observation variables before any handler has run
FieldsAfterConstructor ==
  /\ mode = "mouse"
  /\ currentIndex = 0
  /\ focusedElement = Null
  /\ actualMousePosition = [x |-> 0, y |-> 0]
  /\ cursorFocusedElement = Null
  /\ thrown = FALSE
  /\ emitted = <<>>
  /\ effects = <<>>
  /\ last = [op |-> "init", key |-> "", x |-> 0, y |-> 0, pre |-> <<>>]
  /\ hist = <<>>
  /\ steps = 0

\* no call of lerp under observation
NoCall == [start |-> 0, end |-> 0, tn |-> 0, td |-> 1, epsilon |-> Epsilon]

\* The state after the DOMContentLoaded callback has built the Cursor, the
\* Focusables and the InputManager; no element carries "focused" in the markup.
Init ==
  /\ \E rects \in Layouts :
       /\ focusables = Construct(rects, 0)
       /\ ID = Len(rects)
       /\ classList = [i \in 1 .. Len(rects) |-> {}]
  /\ FieldsAfterConstructor
  /\ hub = NewEmitter
  /\ calls = <<>>
  /\ currentPos = [x |-> 0, y |-> 0]
  /\ targetPos = [x |-> 0, y |-> 0]
  /\ lerpCall = NoCall
  /\ lerpResult = <<>>
  /\ allocated = InputManagerObject
  /\ documentListeners = ListenersAfterLoad

Commit(s) ==
  /\ mode' = s.mode
  /\ currentIndex' = s.currentIndex
  /\ focusedElement' = s.focusedElement
  /\ actualMousePosition' = s.actualMousePosition
  /\ classList' = s.classList
  /\ cursorFocusedElement' = s.cursorFocusedElement
  /\ currentPos' = s.currentPos
  /\ targetPos' = s.targetPos
  /\ thrown' = s.thrown
  /\ emitted' = s.emitted
  /\ effects' = s.effects
  /\ steps' = steps + 1
  /\ UNCHANGED <<focusables, ID, lerpCall, lerpResult, allocated, documentListeners,
                 hub, calls>>

-----------------------------------------------------------------------------
(* Actions: one per browser callback *)

MouseMove ==
  /\ steps < MaxSteps
  /\ \E p \in Points :
       /\ Commit(onMousemove(State, Px(p[1]), Px(p[2])))
       /\ last' = [op |-> "mousemove", key |-> "", x |-> Px(p[1]), y |-> Px(p[2]),
                   pre |-> State, was |-> last.pre]
       /\ hist' = Append(hist, p)

KeyDown ==
  /\ steps < MaxSteps
  /\ \E key \in Keys :
       /\ Commit(onKeydown(State, key))
       /\ last' = [op |-> "keydown", key |-> key, x |-> 0, y |-> 0, pre |-> State,
                   was |-> last.pre]
       /\ hist' = Append(hist, <<key>>)

\* requestAnimationFrame callback: cursor.update()
Frame ==
  /\ steps < MaxSteps
  /\ Commit(CursorUpdate(State))
  /\ last' = [op |-> "frame", key |-> "", x |-> 0, y |-> 0, pre |-> State,
              was |-> last.pre]
  /\ UNCHANGED hist

Next == MouseMove \/ KeyDown \/ Frame

Spec == Init /\ [][Next]_vars

-----------------------------------------------------------------------------
(* Vocabulary of the properties, stated apart from the handlers' code *)

\* the targets whose element carries the "focused" class
FocusedClass == {i \in Indices : "focused" \in classList[i + 1]}

IsSignal == last.op = "mousemove" \/ last.op = "keydown"

\* center of target i in whole pixels: the midpoint of its bounding box
CenterPx(i) ==
  [x |-> (focusables[i + 1].rect.left + focusables[i + 1].rect.right) \div (2 * Scale),
   y |-> (focusables[i + 1].rect.top + focusables[i + 1].rect.bottom) \div (2 * Scale)]

\* squared distance, in pixels, from the last pointer position to target i's center
PointerDist2(i) ==
  LET dx == (last.x \div Scale) - CenterPx(i).x
      dy == (last.y \div Scale) - CenterPx(i).y
  IN  dx * dx + dy * dy

\* the last handler was a pointer move that unsnapped: a target was focused
\* and the pointer is farther from it than the unsnap threshold
PointerUnsnaps ==
  /\ last.op = "mousemove"
  /\ Truthy(last.pre.focusedElement)
  /\ PointerDist2(last.pre.focusedElement) > UNSNAP_DISTANCE * UNSNAP_DISTANCE

\* the first target, in sequence order, whose center is nearest the pointer
NearestToPointer ==
  CHOOSE i \in Indices :
    \A j \in Indices : \/ PointerDist2(i) < PointerDist2(j)
                       \/ (PointerDist2(i) = PointerDist2(j) /\ i <= j)

\* the layout of the worked example: A centered at (0,0), B at (100,0)
TwoTargetLayout ==
  /\ Len0 = 2
  /\ CenterPx(0) = [x |-> 0, y |-> 0]
  /\ CenterPx(1) = [x |-> 100, y |-> 0]

\* the key that addresses identifier n (n < 10)
KeyOfId(n) == <<"0", "1", "2", "3", "4", "5", "6", "7", "8", "9">>[n + 1]

NavigationKeys == {"ArrowRight", "Tab", "ArrowLeft", "Escape"}

\* the last handler was a key press that addresses target i by its identifier
KeyAddresses(i) ==
  /\ last.op = "keydown"
  /\ last.key \notin NavigationKeys
  /\ last.key = KeyOfId(focusables[i + 1].id)

-----------------------------------------------------------------------------
(* Properties *)

\* C1: after any sequence of pointer-move and keyboard signals at most one
\* target carries the "focused" class.
C1_AtMostOneFocused == Cardinality(FocusedClass) <= 1

\* C1 witness: a signal moved focus from one target to a different one, and
\* exactly the new one carries the class.
C1_Witness ==
  /\ IsSignal
  /\ Truthy(last.pre.focusedElement)
  /\ Truthy(focusedElement)
  /\ focusedElement # last.pre.focusedElement
  /\ FocusedClass = {focusedElement}

\* C2: a pointer move that finds the pointer farther than the unsnap
\* threshold from the focused target ends with no target focused, even when
\* another target is within the snap threshold of the pointer.
C2_UnsnapClearsAndStops ==
  PointerUnsnaps =>
    /\ focusedElement = Null
    /\ cursorFocusedElement = Null
    /\ FocusedClass = {}
    /\ ~thrown

\* C2 witness: an unsnapping pointer move with a different target within the
\* snap threshold of the pointer (and of the eased cursor), and focus is none.
C2_Witness ==
  /\ PointerUnsnaps
  /\ \E j \in Indices :
       /\ j # last.pre.focusedElement
       /\ PointerDist2(j) < SNAP_DISTANCE * SNAP_DISTANCE
       /\ distanceToLess(last.pre, getPosition(j), SNAP_DISTANCE)
  /\ focusedElement = Null

\* C3 (as claimed): on a pointer move that does not unsnap, focus switches to
\* the nearest target when the pointer is within the snap threshold of it and
\* it is not the focused one, and does not switch when the pointer is not
\* within the snap threshold of the nearest target.
C3_SnapByPointerDistance ==
  (last.op = "mousemove" /\ ~PointerUnsnaps /\ Len0 >= 1) =>
    LET near == NearestToPointer
        within == PointerDist2(near) < SNAP_DISTANCE * SNAP_DISTANCE
    IN  /\ (within /\ near # last.pre.focusedElement) => focusedElement = near
        /\ ~within => focusedElement = last.pre.focusedElement

\* C4 (as claimed): A at (0,0), B at (100,0): the pointer at (10,0) focuses A,
\* then at (40,0) A stays focused, then at (90,0) focus is cleared.
C4_Original ==
  TwoTargetLayout =>
    /\ hist = << <<10, 0>> >> => focusedElement = 0
    /\ hist = << <<10, 0>>, <<40, 0>> >> => focusedElement = 0
    /\ hist = << <<10, 0>>, <<40, 0>>, <<90, 0>> >> => focusedElement = Null

\* C4 (amended): the pointer at (10,0) focuses A; then at (40,0) focus is
\* cleared in that step (40 > 36), and stays none at (90,0); a pointer that
\* stays within the unsnap distance, at (30,0), leaves A focused, and the
\* pointer at (90,0) after it clears focus.
C4_Amended ==
  TwoTargetLayout =>
    /\ hist = << <<10, 0>> >> => (focusedElement = 0 /\ FocusedClass = {0})
    /\ hist = << <<10, 0>>, <<40, 0>> >> => (focusedElement = Null /\ FocusedClass = {})
    /\ hist = << <<10, 0>>, <<40, 0>>, <<90, 0>> >> => focusedElement = Null
    /\ hist = << <<10, 0>>, <<30, 0>> >> => (focusedElement = 0 /\ FocusedClass = {0})
    /\ hist = << <<10, 0>>, <<30, 0>>, <<90, 0>> >> =>
         (focusedElement = Null /\ FocusedClass = {})

\* C4 witness: the amended path has been walked to its end.
C4_Witness ==
  /\ TwoTargetLayout
  /\ hist = << <<10, 0>>, <<30, 0>>, <<90, 0>> >>
  /\ last.op = "mousemove"
  /\ last.pre.focusedElement = 0
  /\ focusedElement = Null

\* C5: with N >= 1 targets a "next" key (ArrowRight, Tab) sets the mode to
\* keyboard, the index to (index + 1) mod N and focuses the target there;
\* from the last index it wraps to 0.
C5_NextAdvances ==
  (last.op = "keydown" /\ last.key \in {"ArrowRight", "Tab"} /\ Len0 >= 1) =>
    /\ ~thrown
    /\ mode = "keyboard"
    /\ currentIndex = (last.pre.currentIndex + 1) % Len0
    /\ focusedElement = currentIndex
    /\ FocusedClass = {currentIndex}
    /\ last.pre.currentIndex = Len0 - 1 => currentIndex = 0

\* C5 witness: three targets, "next" from index 2 arrives at index 0.
C5_Witness ==
  /\ last.op = "keydown"
  /\ last.key \in {"ArrowRight", "Tab"}
  /\ Len0 = 3
  /\ last.pre.currentIndex = 2
  /\ currentIndex = 0
  /\ focusedElement = 0

\* C6: with N >= 1 targets a "previous" key (ArrowLeft) sets the mode to
\* keyboard, the index to (index - 1 + N) mod N and focuses the target
\* there; from index 0 it wraps to N - 1.
C6_PreviousRetreats ==
  (last.op = "keydown" /\ last.key = "ArrowLeft" /\ Len0 >= 1) =>
    /\ ~thrown
    /\ mode = "keyboard"
    /\ currentIndex = (last.pre.currentIndex - 1 + Len0) % Len0
    /\ focusedElement = currentIndex
    /\ FocusedClass = {currentIndex}
    /\ last.pre.currentIndex = 0 => currentIndex = Len0 - 1

\* C6 witness: three targets, "previous" from index 0 arrives at index 2.
C6_Witness ==
  /\ last.op = "keydown"
  /\ last.key = "ArrowLeft"
  /\ Len0 = 3
  /\ last.pre.currentIndex = 0
  /\ currentIndex = 2
  /\ focusedElement = 2

\* C7: a key equal to the identifier of a target sets the mode to keyboard,
\* focuses exactly that target whatever the index and focus were, and leaves
\* the index at that target's place in the sequence.
C7_DirectAddressFocuses ==
  \A i \in Indices :
    KeyAddresses(i) =>
      /\ ~thrown
      /\ mode = "keyboard"
      /\ focusedElement = i
      /\ cursorFocusedElement = i
      /\ currentIndex = i
      /\ FocusedClass = {i}

\* C7 witness: key "1" pressed while another target was focused at another
\* index, in pointer mode; the second target is now focused.
C7_Witness ==
  /\ Len0 = 3
  /\ KeyAddresses(1)
  /\ last.key = "1"
  /\ last.pre.focusedElement = 2
  /\ last.pre.currentIndex = 2
  /\ focusedElement = 1
  /\ currentIndex = 1

\* C8 (as claimed): with at least one target (the empty sequence is C9's
\* case), a key that matches no identifier completes without an error and
\* leaves focus, index, mode and the focused classes unchanged.
C8_NoMatchIsNoOp ==
  (/\ last.op = "keydown"
   /\ Len0 >= 1
   /\ last.key \notin NavigationKeys
   /\ \A i \in Indices : ~KeyAddresses(i)) =>
    /\ ~thrown
    /\ focusedElement = last.pre.focusedElement
    /\ currentIndex = last.pre.currentIndex
    /\ mode = last.pre.mode
    /\ classList = last.pre.classList

\* C9 (as claimed): with zero targets every signal completes without
\* throwing and leaves the focused target none.
C9_EmptySequenceSafe ==
  (Len0 = 0 /\ IsSignal) => (~thrown /\ ~Truthy(focusedElement))

\* C10: Escape clears focus unconditionally (no focused target, no focused
\* class) and leaves the mode unchanged.
C10_EscapeClears ==
  (last.op = "keydown" /\ last.key = "Escape") =>
    /\ ~thrown
    /\ ~Truthy(focusedElement)
    /\ cursorFocusedElement = Null
    /\ FocusedClass = {}
    /\ mode = last.pre.mode

\* C10 witness: Escape pressed in keyboard mode with a target focused.
C10_Witness ==
  /\ last.op = "keydown"
  /\ last.key = "Escape"
  /\ Truthy(last.pre.focusedElement)
  /\ last.pre.mode = "keyboard"
  /\ mode = "keyboard"
  /\ focusedElement = Null

\* C11 (as claimed): the threshold comparisons are strict: a pointer exactly
\* at the snap distance from the nearest target does not snap in (focus is
\* left as it was), and a pointer exactly at the unsnap distance from the
\* focused target does not clear focus.
C11_StrictThresholds ==
  (last.op = "mousemove" /\ Len0 >= 1) =>
    /\ (/\ ~PointerUnsnaps
        /\ PointerDist2(NearestToPointer) = SNAP_DISTANCE * SNAP_DISTANCE)
         => focusedElement = last.pre.focusedElement
    /\ (/\ Truthy(last.pre.focusedElement)
        /\ PointerDist2(last.pre.focusedElement) = UNSNAP_DISTANCE * UNSNAP_DISTANCE)
         => Truthy(focusedElement)

\* C12 (as claimed): a target that gains focus by snapping is a target whose
\* center is nearest the pointer, the first such target in sequence order
\* when several are equally near.
C12_SnapTargetIsNearest ==
  (/\ last.op = "mousemove"
   /\ Truthy(focusedElement)
   /\ focusedElement # last.pre.focusedElement) =>
    focusedElement = NearestToPointer

\* C13: every pointer move leaves the mode "mouse", whatever the mode and
\* focus were and whichever branch the handler takes.
C13_PointerMoveSetsMouseMode ==
  last.op = "mousemove" => (mode = "mouse" /\ ~thrown)

\* C13 witness: a pointer move in keyboard mode that took the unsnap branch.
C13_Witness ==
  /\ PointerUnsnaps
  /\ last.pre.mode = "keyboard"
  /\ mode = "mouse"

\* the last handler emitted the named event
Published(event) == \E i \in 1 .. Len(emitted) : emitted[i][1] = event

\* C14 (as claimed): a mode-change notification is published exactly when the
\* mode value actually changes: a signal that leaves the mode as it was
\* publishes none, and every actual change of mode publishes one.
C14_ModeChangePublished ==
  IsSignal => (Published("modechange") <=> mode # last.pre.mode)

\* C18 (as claimed): a frame publishes the position notification if and only
\* if the smoothed position changed on that frame.
C18_AdvancePublished ==
  last.op = "frame" => (Published("cursormove") <=> currentPos # last.pre.currentPos)

-----------------------------------------------------------------------------
(* The interpolator on its own: lerp(start, end, t, epsilon) for arguments
   drawn from bounded sets.  Values are in units of Epsilon / 10; t is the
   fraction tn / td. *)

LerpValues == { -30, -5, 0, 3, 9, 10, 11, 25, 40 }

LerpFactors == { <<0, 1>>, <<1, 5>>, <<1, 2>>, <<4, 5>>, <<1, 1>>, <<3, 2>> }

LerpEpsilons == { 0, 1, Epsilon }

LerpCalls ==
  { [start |-> s, end |-> e, tn |-> f[1], td |-> f[2], epsilon |-> eps] :
      s \in LerpValues, e \in LerpValues, f \in LerpFactors, eps \in LerpEpsilons }

InitLerp ==
  /\ focusables = <<>>
  /\ ID = 0
  /\ classList = <<>>
  /\ FieldsAfterConstructor
  /\ hub = NewEmitter
  /\ calls = <<>>
  /\ currentPos = [x |-> 0, y |-> 0]
  /\ targetPos = [x |-> 0, y |-> 0]
  /\ lerpCall \in LerpCalls
  /\ lerpResult = <<>>
  /\ allocated = NoObject
  /\ documentListeners = <<>>

LerpReturn ==
  /\ lerpResult = <<>>
  /\ lerpResult' = <<lerp(lerpCall.start, lerpCall.end, lerpCall.tn, lerpCall.td,
                          lerpCall.epsilon)>>
  /\ UNCHANGED <<focusables, ID, mode, currentIndex, focusedElement,
                 actualMousePosition, classList, cursorFocusedElement, currentPos,
                 targetPos, thrown, emitted, effects, last, hist, lerpCall, allocated,
                 documentListeners, hub, calls, steps>>

NextLerp == LerpReturn

SpecLerp == InitLerp /\ [][NextLerp]_vars

\* r is the raw blend start + t * (end - start) of the call, to the nearest unit
IsRawBlend(r) ==
  2 * Abs(lerpCall.td * (r - lerpCall.start) - lerpCall.tn * (lerpCall.end - lerpCall.start))
    <= lerpCall.td

BlendRange == -100 .. 100

\* C15: lerp returns exactly end whenever the raw blend is within epsilon of
\* end (strictly closer than epsilon), and returns the raw blend otherwise.
C15_SnapOrRawBlend ==
  lerpResult # <<>> =>
    \E r \in BlendRange :
      /\ IsRawBlend(r)
      /\ lerpResult[1] = IF Abs(r - lerpCall.end) < lerpCall.epsilon
                         THEN lerpCall.end ELSE r

\* C15 witness: a call whose raw blend differs from end and that returned end.
C15_Witness ==
  /\ lerpResult = <<lerpCall.end>>
  /\ \E r \in BlendRange : IsRawBlend(r) /\ r # lerpCall.end
  /\ ~IsRawBlend(lerpCall.end)

\* C16 (as claimed): with the default epsilon, lerp(s, e, 0) equals s and
\* lerp(s, e, 1) equals e, for all s and e.
C16_Original ==
  (lerpResult # <<>> /\ lerpCall.epsilon = Epsilon) =>
    /\ lerpCall.tn = 0 => lerpResult[1] = lerpCall.start
    /\ lerpCall.tn = lerpCall.td => lerpResult[1] = lerpCall.end

\* C16 (amended): lerp(s, e, 1) equals e for all s and e; lerp(s, e, 0)
\* equals s whenever s and e are at least epsilon apart, and equals e when
\* they are closer than epsilon.
C16_Amended ==
  lerpResult # <<>> =>
    /\ lerpCall.tn = lerpCall.td => lerpResult[1] = lerpCall.end
    /\ lerpCall.tn = 0 =>
         lerpResult[1] = IF Abs(lerpCall.start - lerpCall.end) >= lerpCall.epsilon
                         THEN lerpCall.start ELSE lerpCall.end

\* C16 witness: lerp(s, e, 0) with s and e distinct and closer than epsilon
\* returned e.
C16_Witness ==
  /\ lerpCall.tn = 0
  /\ lerpCall.start # lerpCall.end
  /\ lerpResult = <<lerpCall.end>>

-----------------------------------------------------------------------------
(* The position tracker on its own: a Position with a current and a target
   position drawn from bounded sets, advanced once per animation frame by the
   animate() loop (requestAnimationFrame), the target left alone. *)

TrackerValues == { 0, 3, Px(1) + 7, 0 - Px(30), Px(100) }

InitTracker ==
  /\ focusables = <<>>
  /\ ID = 0
  /\ classList = <<>>
  /\ FieldsAfterConstructor
  /\ hub = NewEmitter
  /\ calls = <<>>
  /\ currentPos \in [x : TrackerValues, y : TrackerValues]
  /\ targetPos \in [x : TrackerValues, y : TrackerValues]
  /\ lerpCall = NoCall
  /\ lerpResult = <<>>
  /\ allocated = NoObject
  /\ documentListeners = <<>>

\* Position.update(), called by the frame callback
Advance ==
  /\ currentPos' = PositionUpdate(State).currentPos
  /\ last' = [op |-> "advance", key |-> "", x |-> 0, y |-> 0, pre |-> State]
  /\ UNCHANGED <<focusables, ID, mode, currentIndex, focusedElement,
                 actualMousePosition, classList, cursorFocusedElement, targetPos,
                 thrown, emitted, effects, hist, lerpCall, lerpResult, allocated,
                 documentListeners, hub, calls, steps>>

NextTracker == Advance

\* animate() re-schedules itself on every frame, so a frame that can advance
\* the position is eventually run
SpecTracker == InitTracker /\ [][NextTracker]_vars /\ WF_vars(Advance)

\* b lies between a and c, ends included
Between(a, b, c) == (a <= b /\ b <= c) \/ (c <= b /\ b <= a)

\* C17: with a fixed target and the tracker's ease factor, repeated advances
\* reach the target exactly after finitely many steps and stay there, and on
\* every step each coordinate stays between its previous value and the target.
C17_ReachesTargetNoOvershoot ==
  /\ [](last.op = "advance" =>
          /\ Between(last.pre.currentPos.x, currentPos.x, targetPos.x)
          /\ Between(last.pre.currentPos.y, currentPos.y, targetPos.y))
  /\ <>[](currentPos = targetPos)

\* C17 witness: an advance from a position off the target on both axes landed
\* exactly on the target.
C17_Witness ==
  /\ last.op = "advance"
  /\ last.pre.currentPos.x # targetPos.x
  /\ last.pre.currentPos.y # targetPos.y
  /\ Abs(last.pre.currentPos.x - targetPos.x) >= Epsilon
  /\ currentPos = targetPos

-----------------------------------------------------------------------------
(* The constructors on their own: from the state at module load (counter ID
   at 0, nothing built), callers evaluate new Focusable(element) and
   new Cursor(element) with valid and invalid host values, the layout of a
   host element changes, and the resize listener updates every Focusable. *)

HTMLElement(rect) == [kind |-> "HTMLElement", rect |-> rect]

\* values passed as the host element: two elements, null (getElementById
\* found nothing) and a selector string
HostValues ==
  { HTMLElement(Rect(-10, -10, 10, 10)), HTMLElement(Rect(90, -10, 110, 10)),
    [kind |-> "null"], [kind |-> "string"] }

\* element instanceof HTMLElement
instanceofHTMLElement(element) == element.kind = "HTMLElement"

\* what the constructors read and write, as one record
Heap ==
  [focusables |-> focusables, ID |-> ID, classList |-> classList,
   allocated |-> allocated, documentListeners |-> documentListeners,
   thrown |-> FALSE]

FocusableConstructorNoIncrement(h, element) ==
  IF ~instanceofHTMLElement(element)
  THEN [h EXCEPT !.allocated = [class |-> "Focusable", fields |-> {}, classes |-> {}],
                 !.thrown = TRUE]
  ELSE [h EXCEPT !.allocated = [class |-> "Focusable",
                                fields |-> {"element", "position", "id"},
                                classes |-> {}],
                 !.focusables = Append(@, FocusableFields(element.rect, h.ID)),
                 !.classList = Append(@, {})]

\* constructor of Focusable, then the caller's focusableInstances.push(instance)
FocusableConstructor(h, element) ==
  LET this == [class |-> "Focusable", fields |-> {}, classes |-> {}]
  IN  IF ~instanceofHTMLElement(element)
      THEN [h EXCEPT !.allocated = this, !.thrown = TRUE]
      ELSE [h EXCEPT !.allocated = [this EXCEPT !.fields = {"element", "position", "id"}],
                     !.focusables = Append(@, FocusableFields(element.rect, h.ID)),
                     !.classList = Append(@, {}),
                     !.ID = h.ID + 1]

CursorConstructorListenFirst(h, element) ==
  LET this == [class |-> "Cursor", fields |-> {"events"}, classes |-> {}]
      h1 == [h EXCEPT !.documentListeners = @ \o CursorListeners]
  IN  IF ~instanceofHTMLElement(element)
      THEN [h1 EXCEPT !.allocated = this, !.thrown = TRUE]
      ELSE [h1 EXCEPT !.allocated =
                        [this EXCEPT !.fields = @ \cup {"element", "position", "focusedElement"},
                                     !.classes = {"hide"}]]

\* constructor of Cursor: super(), the check, the fields, hide(), initMouseEvents()
CursorConstructor(h, element) ==
  LET this == [class |-> "Cursor", fields |-> {"events"}, classes |-> {}]
  IN  IF ~instanceofHTMLElement(element)
      THEN [h EXCEPT !.allocated = this, !.thrown = TRUE]
      ELSE [h EXCEPT !.allocated =
                        [this EXCEPT !.fields = @ \cup {"element", "position", "focusedElement"},
                                     !.classes = {"hide"}],
                     !.documentListeners = @ \o CursorListeners]

\* Focusable.update() of every instance: this.position = this.getPosition()
updateAll(h) ==
  [h EXCEPT !.focusables =
     [i \in 1 .. Len(h.focusables) |->
        [h.focusables[i] EXCEPT
           !.position = FocusableFields(h.focusables[i].rect, h.focusables[i].id).position]]]

InitConstruct ==
  /\ focusables = <<>>
  /\ ID = 0
  /\ classList = <<>>
  /\ FieldsAfterConstructor
  /\ hub = NewEmitter
  /\ calls = <<>>
  /\ currentPos = [x |-> 0, y |-> 0]
  /\ targetPos = [x |-> 0, y |-> 0]
  /\ lerpCall = NoCall
  /\ lerpResult = <<>>
  /\ allocated = NoObject
  /\ documentListeners = <<>>

Store(h, op, element) ==
  /\ focusables' = h.focusables
  /\ ID' = h.ID
  /\ classList' = h.classList
  /\ allocated' = h.allocated
  /\ documentListeners' = h.documentListeners
  /\ thrown' = h.thrown
  /\ last' = [op |-> op, key |-> "", x |-> 0, y |-> 0,
              pre |-> [Heap EXCEPT !.thrown = thrown] @@ [element |-> element]]
  /\ steps' = steps + 1
  /\ UNCHANGED <<mode, currentIndex, focusedElement, actualMousePosition,
                 cursorFocusedElement, currentPos, targetPos, emitted, effects, hist,
                 lerpCall, lerpResult, hub, calls>>

NewFocusable ==
  /\ steps < MaxSteps
  /\ \E element \in HostValues :
       Store(FocusableConstructor(Heap, element), "new Focusable", element)

NewCursor ==
  /\ steps < MaxSteps
  /\ \E element \in HostValues :
       Store(CursorConstructor(Heap, element), "new Cursor", element)

\* the page lays a host element out anew: its bounding box changes
Reflow ==
  /\ steps < MaxSteps
  /\ \E i \in 1 .. Len(focusables), element \in HostValues :
       /\ instanceofHTMLElement(element)
       /\ element.rect # focusables[i].rect
       /\ Store([Heap EXCEPT !.focusables[i].rect = element.rect], "reflow", element)

\* the resize listener
Resize ==
  /\ steps < MaxSteps
  /\ Store(updateAll(Heap), "resize", [kind |-> "null"])

NextConstruct == NewFocusable \/ NewCursor \/ Reflow \/ Resize

SpecConstruct == InitConstruct /\ [][NextConstruct]_vars

\* the last step evaluated `new` on a value that is not a valid host element
InvalidConstruction ==
  /\ last.op \in {"new Focusable", "new Cursor"}
  /\ ~instanceofHTMLElement(last.pre.element)

\* the fields the constructors of Cursor and Focusable assign themselves
OwnFields == {"element", "position", "focusedElement", "id"}

C20_IdentifiersIncreaseAndStay ==
  /\ \A i, j \in Indices : i < j => getIdentifier(i) < getIdentifier(j)
  /\ last.op # "init" =>
       /\ \A i \in 1 .. Len(last.pre.focusables) :
            getIdentifier(i - 1) = last.pre.focusables[i].id
       /\ Len0 > Len(last.pre.focusables) => getIdentifier(Len0 - 1) = last.pre.ID

\* C20 witness: two targets exist and the resize listener has just updated
\* them.
C20_Witness ==
  /\ Len0 >= 2
  /\ last.op = "resize"
  /\ getIdentifier(0) # getIdentifier(1)

\* the positions in the last handler's effects of the named call or write on f
EffectAt(name, f) == {k \in 1 .. Len(effects) : effects[k] = <<name, f>>}

\* the calls and writes of the clear-focus procedure
ClearEffects == {"cursor.clearFocusedElement", "removeFocus", "onBlur"}

\* the last handler marked target t focused while last.pre.focusedElement was
\* the focused target
MarkedFocused(t) == Truthy(t) /\ EffectAt("focusedElement", t) # {}

\* C21: when a handler focuses t while a different target u is focused, the
\* whole clear-focus procedure runs on u (cursor reference cleared, class
\* removed, blur callback reached) before t is marked focused and before t's
\* focus callback; when t is already the focused target, or none is, no part
\* of the clear-focus procedure runs.
C21_ClearBeforeFocus ==
  \A t \in Indices : MarkedFocused(t) =>
    LET u == last.pre.focusedElement
    IN  IF Truthy(u) /\ u # t
        THEN \A name \in ClearEffects :
               /\ EffectAt(name, u) # {}
               /\ \A k \in EffectAt(name, u) :
                    /\ \A m \in EffectAt("focusedElement", t) : k < m
                    /\ \A m \in EffectAt("onFocus", t) : k < m
        ELSE \A k \in 1 .. Len(effects) : effects[k][1] \notin ClearEffects

\* C21 witness: a key press moved focus from one target to another.
C21_Witness ==
  /\ last.op = "keydown"
  /\ Truthy(last.pre.focusedElement)
  /\ Truthy(focusedElement)
  /\ focusedElement # last.pre.focusedElement
  /\ MarkedFocused(focusedElement)
  /\ EffectAt("onBlur", last.pre.focusedElement) # {}

\* C22: whenever a target is focused, currentIndex is a valid index into the
\* sequence and the target at currentIndex is the focused one.
C22_IndexTracksFocus ==
  Truthy(focusedElement) =>
    /\ currentIndex \in Indices
    /\ ArrayAt(currentIndex) = focusedElement

\* C22 witness: a pointer move focused a target other than the first one.
C22_Witness ==
  /\ last.op = "mousemove"
  /\ Truthy(focusedElement)
  /\ focusedElement # last.pre.focusedElement
  /\ focusedElement >= 1
  /\ currentIndex = focusedElement

\* C23: an advance made when the current position already equals the target
\* leaves the current position unchanged and equal to the target.
C23_AdvanceIdempotentAtTarget ==
  (last.op = "advance" /\ last.pre.currentPos = last.pre.targetPos) =>
    /\ currentPos = last.pre.currentPos
    /\ currentPos = targetPos

\* C23 witness: an advance made at a target away from the origin.
C23_Witness ==
  /\ last.op = "advance"
  /\ last.pre.currentPos = last.pre.targetPos
  /\ targetPos.x # 0
  /\ targetPos.y # 0

\* what getPosition() of the i-th target returned before the last step
ReportedBefore(i) ==
  [x |-> lerp(last.pre.focusables[i].rect.right, last.pre.focusables[i].rect.left,
              1, 2, Epsilon),
   y |-> lerp(last.pre.focusables[i].rect.top, last.pre.focusables[i].rect.bottom,
              1, 2, Epsilon)]

\* C24 (as claimed): the position a target reports through getPosition() is a
\* cached value: a step other than the update() of the resize listener, a
\* layout change of the host element included, leaves it unchanged.
C24_ReportedPositionCached ==
  last.op \in {"new Focusable", "new Cursor", "reflow"} =>
    \A i \in 1 .. Len(last.pre.focusables) : getPosition(i - 1) = ReportedBefore(i)

-----------------------------------------------------------------------------
(* The EventEmitter on its own: one emitter, client callbacks of a few kinds,
   and callers that subscribe, unsubscribe and emit. *)

MaxEmitterOps == 2

\* client callbacks: a, b and c only take the call; r emits the same event
\* again the first time it runs; u unsubscribes b from the event it is called
\* for; s subscribes c to it
Callbacks == {"a", "b", "c", "r", "u", "s"}

\* the argument of emit
Args == {1, 2}

\* a function value in the events table: the callback itself (wrapper 0), or
\* the n-th onceWrapper closure made by once(event, cb)
Registration(cb, n) == [cb |-> cb, wrapper |-> n]

\* what the operations of the emitter read and write
Emitter == [events |-> hub.events, fired |-> hub.fired, wrappers |-> hub.wrappers,
            calls |-> calls]

on(h, event, callback) == [h EXCEPT !.events[event] = Append(@, callback)]

offFirstOnly(h, event, callback) ==
  IF h.events[event] = <<>> THEN h
  ELSE IF \E i \in 1 .. Len(h.events[event]) : h.events[event][i] = callback
  THEN LET i == CHOOSE i \in 1 .. Len(h.events[event]) :
                  /\ h.events[event][i] = callback
                  /\ \A j \in 1 .. (i - 1) : h.events[event][j] # callback
       IN  [h EXCEPT !.events[event] =
              SubSeq(@, 1, i - 1) \o SubSeq(@, i + 1, Len(@))]
  ELSE h

\* filter((cb) => cb !== callback); an array left empty is deleted
off(h, event, callback) ==
  IF h.events[event] = <<>> THEN h
  ELSE [h EXCEPT !.events[event] = SelectSeq(@, LAMBDA cb : cb # callback)]

RECURSIVE emitEvent(_, _, _)
RECURSIVE forEach(_, _, _, _, _)
RECURSIVE invoke(_, _, _, _)
RECURSIVE run(_, _, _, _)
RECURSIVE forEachLive(_, _, _, _, _)

\* the body of the client callback of a registration, called with arg for
\* event; the call is logged with the onceWrapper it came through (0: none)
run(h, callback, event, arg) ==
  LET cb == callback.cb
      h1 == [h EXCEPT !.calls = Append(@, [cb |-> cb, wrapper |-> callback.wrapper,
                                           event |-> event, arg |-> arg])]
  IN  IF cb = "r" /\ "r" \notin h1.fired
      THEN emitEvent([h1 EXCEPT !.fired = @ \cup {"r"}], event, arg)
      ELSE IF cb = "u" THEN off(h1, event, Registration("b", 0))
      ELSE IF cb = "s" THEN on(h1, event, Registration("c", 0))
      ELSE h1

\* calling a function of the events table: the callback, or onceWrapper,
\* which calls the callback and then this.off(event, onceWrapper)
invoke(h, callback, event, arg) ==
  IF callback.wrapper = 0
  THEN run(h, callback, event, arg)
  ELSE off(run(h, callback, event, arg), event, callback)

forEachLive(h, array, i, event, arg) ==
  IF i > Len(h.events[event]) THEN h
  ELSE forEachLive(invoke(h, h.events[event][i], event, arg), array, i + 1, event, arg)

\* array.forEach from index i: the length is read once, before the first call
forEach(h, array, i, event, arg) ==
  IF i > Len(array) THEN h
  ELSE forEach(invoke(h, array[i], event, arg), array, i + 1, event, arg)

emitEventReversed(h, event, arg) ==
  IF h.events[event] = <<>> THEN h
  ELSE forEach(h, [i \in 1 .. Len(h.events[event]) |->
                     h.events[event][Len(h.events[event]) + 1 - i]], 1, event, arg)

emitEvent(h, event, arg) ==
  IF h.events[event] = <<>> THEN h
  ELSE forEach(h, h.events[event], 1, event, arg)

\* once(event, callback): a new onceWrapper closure is subscribed
once(h, event, callback) ==
  on([h EXCEPT !.wrappers = @ + 1], event, Registration(callback, h.wrappers + 1))

\* events tables built by earlier subscriptions
Tables ==
  { [e \in Events |-> <<>>],
    [e \in Events |-> IF e = "e" THEN <<Registration("a", 0), Registration("b", 0)>>
                      ELSE <<Registration("c", 0)>>],
    [e \in Events |-> IF e = "e"
                      THEN <<Registration("a", 0), Registration("b", 0), Registration("a", 0)>>
                      ELSE <<Registration("a", 0)>>],
    [e \in Events |-> IF e = "e"
                      THEN <<Registration("u", 0), Registration("b", 0), Registration("s", 0)>>
                      ELSE <<>>] }

InitEmitter ==
  /\ focusables = <<>>
  /\ ID = 0
  /\ classList = <<>>
  /\ FieldsAfterConstructor
  /\ hub \in { [events |-> table, fired |-> {}, wrappers |-> 0] : table \in Tables }
  /\ calls = <<>>
  /\ currentPos = [x |-> 0, y |-> 0]
  /\ targetPos = [x |-> 0, y |-> 0]
  /\ lerpCall = NoCall
  /\ lerpResult = <<>>
  /\ allocated = NoObject
  /\ documentListeners = <<>>

Deliver(h, op, event, arg, callback) ==
  /\ hub' = [events |-> h.events, fired |-> h.fired, wrappers |-> h.wrappers]
  /\ calls' = h.calls
  /\ last' = [op |-> op, key |-> event, x |-> arg, y |-> 0,
              pre |-> [hub |-> hub, calls |-> calls, callback |-> callback]]
  /\ steps' = steps + 1
  /\ UNCHANGED <<focusables, ID, mode, currentIndex, focusedElement,
                 actualMousePosition, classList, cursorFocusedElement, currentPos,
                 targetPos, thrown, emitted, effects, hist, lerpCall, lerpResult,
                 allocated, documentListeners>>

On ==
  /\ steps < MaxEmitterOps
  /\ \E event \in Events, cb \in Callbacks :
       Deliver(on(Emitter, event, Registration(cb, 0)), "on", event, 0,
               Registration(cb, 0))

Once ==
  /\ steps < MaxEmitterOps
  /\ \E event \in Events, cb \in Callbacks :
       Deliver(once(Emitter, event, cb), "once", event, 0,
               Registration(cb, hub.wrappers + 1))

\* off(event, callback), or the function an earlier on or once returned
Off ==
  /\ steps < MaxEmitterOps
  /\ \E event \in Events, cb \in Callbacks, n \in 0 .. hub.wrappers :
       /\ n # 0 => \E i \in 1 .. Len(hub.events[event]) :
                     hub.events[event][i] = Registration(cb, n)
       /\ Deliver(off(Emitter, event, Registration(cb, n)), "off", event, 0,
                  Registration(cb, n))

Emit ==
  /\ steps < MaxEmitterOps
  /\ \E event \in Events, arg \in Args :
       Deliver(emitEvent(Emitter, event, arg), "emit", event, arg, Registration("", 0))

NextEmitter == On \/ Once \/ Off \/ Emit

SpecEmitter == InitEmitter /\ [][NextEmitter]_vars

\* the callback invocations the last operation made
NewCalls == SubSeq(calls, Len(last.pre.calls) + 1, Len(calls))

\* the array of the emitted event when the last emit started
Subscribed == last.pre.hub.events[last.key]

\* no callback subscribed to the emitted event emits in turn
NoneEmits ==
  \A i \in 1 .. Len(Subscribed) :
    Subscribed[i].cb = "r" => "r" \in last.pre.hub.fired

\* C25: an emit of an event invokes the callbacks subscribed to that event in
\* subscription order, once per registration, with the published argument,
\* and nothing else: no callback of another event, and nothing at all when
\* the event has no subscriber.
C25_EmitDeliversInOrder ==
  (last.op = "emit" /\ NoneEmits) =>
    NewCalls = [i \in 1 .. Len(Subscribed) |->
                  [cb |-> Subscribed[i].cb, wrapper |-> Subscribed[i].wrapper,
                   event |-> last.key, arg |-> last.x]]

\* C25 witness: an emit to three registrations, one callback registered
\* twice, while another event has a subscriber of its own.
C25_Witness ==
  /\ last.op = "emit"
  /\ NoneEmits
  /\ Len(Subscribed) = 3
  /\ Subscribed[1] = Subscribed[3]
  /\ Subscribed[1] # Subscribed[2]
  /\ \E e \in Events : e # last.key /\ last.pre.hub.events[e] # <<>>
  /\ Len(NewCalls) = 3

\* the invocations that came through the n-th onceWrapper
CallsThrough(n) == {k \in 1 .. Len(calls) : calls[k].wrapper = n}

\* C26 (as claimed): a callback registered with once is invoked at most once
\* through that registration over any sequence of emits, an emit issued from
\* inside the callback included.
C26_OnceAtMostOnce ==
  \A n \in 1 .. hub.wrappers : Cardinality(CallsThrough(n)) <= 1

\* C27: at the end of every handler the cursor's focused reference equals
\* the InputManager's focused target: both none, or both the same target.
C27_CursorFocusAgrees ==
  IF Truthy(focusedElement)
  THEN cursorFocusedElement = focusedElement
  ELSE ~Truthy(cursorFocusedElement)

\* C27 witness: a pointer move unsnapped, and both references went from the
\* same target to none.
C27_Witness ==
  /\ PointerUnsnaps
  /\ Truthy(last.pre.cursorFocusedElement)
  /\ last.pre.cursorFocusedElement = last.pre.focusedElement
  /\ focusedElement = Null
  /\ cursorFocusedElement = Null

\* C28 (as claimed): every key press publishes exactly one "input"
\* notification carrying that key, Escape and keys that match no identifier
\* included (here for a sequence that is not empty).
C28_OneInputPerKey ==
  (last.op = "keydown" /\ Len0 >= 1) => emitted = << <<"input", last.key>> >>

\* the last handler cleared focus: Escape, or a pointer move that unsnapped,
\* while a target was focused
ClearedFocus ==
  /\ \/ (last.op = "keydown" /\ last.key = "Escape")
     \/ PointerUnsnaps
  /\ Truthy(last.pre.focusedElement)

\* the last handler was a `next` or `previous` key press made with no focus,
\* and the handler before it had cleared focus from a target
MovedAfterClear ==
  /\ steps >= 2
  /\ last.op = "keydown"
  /\ last.key \in {"ArrowRight", "Tab", "ArrowLeft"}
  /\ ~Truthy(last.pre.focusedElement)
  /\ Truthy(last.was.focusedElement)

\* C29: clearing focus leaves currentIndex unchanged; a `next` or `previous`
\* key press that follows focuses the neighbour of the target that was focused
\* before the clear; and the first `next` after construction, with at least
\* two targets, focuses the target at index 1.
C29_ClearKeepsIndex ==
  /\ ClearedFocus => currentIndex = last.pre.currentIndex
  /\ MovedAfterClear =>
       focusedElement =
         IF last.key = "ArrowLeft"
         THEN (last.was.focusedElement + Len0 - 1) % Len0
         ELSE (last.was.focusedElement + 1) % Len0
  /\ (steps = 1 /\ last.op = "keydown" /\ last.key \in {"ArrowRight", "Tab"} /\ Len0 >= 2)
       => focusedElement = 1

\* C29 witness: focus was cleared from the target at index 1 and the `next`
\* key press after it focused its neighbour.
C29_Witness ==
  /\ MovedAfterClear
  /\ last.key = "ArrowRight"
  /\ last.was.focusedElement = 1
  /\ last.pre.currentIndex = 1
  /\ focusedElement = 2 % Len0

\* the positions of function value callback in array
PositionsOf(callback, array) == {i \in 1 .. Len(array) : array[i] = callback}

\* C30: unsubscribing a callback from an event removes every registration of
\* it for that event and leaves the other registrations of the event in
\* their order and the other events as they were; unsubscribing a callback
\* that is not registered changes nothing; and an emit invokes only what is
\* registered when it starts, so an unsubscribed callback is not invoked.
C30_OffRemovesAll ==
  /\ last.op = "off" =>
       /\ PositionsOf(last.pre.callback, hub.events[last.key]) = {}
       /\ hub.events[last.key] =
            SelectSeq(Subscribed, LAMBDA cb : cb # last.pre.callback)
       /\ \A e \in Events \ {last.key} : hub.events[e] = last.pre.hub.events[e]
       /\ PositionsOf(last.pre.callback, Subscribed) = {} => hub = last.pre.hub
       /\ calls = last.pre.calls
  /\ (last.op = "emit" /\ NoneEmits) =>
       \A k \in 1 .. Len(NewCalls) :
         PositionsOf(Registration(NewCalls[k].cb, NewCalls[k].wrapper), Subscribed) # {}

\* C30 witness: an off removed both registrations of a callback and left
\* another callback of the event and a subscriber of another event in place.
C30_Witness ==
  /\ last.op = "off"
  /\ Cardinality(PositionsOf(last.pre.callback, Subscribed)) = 2
  /\ Len(hub.events[last.key]) = 1
  /\ \E e \in Events \ {last.key} : hub.events[e] # <<>>

\* the invocations of function value callback the last operation made
NewCallsOf(callback) ==
  {k \in 1 .. Len(NewCalls) :
     Registration(NewCalls[k].cb, NewCalls[k].wrapper) = callback}

\* the function values in the array of the emitted event
FunctionsOf(array) == {array[i] : i \in 1 .. Len(array)}

\* C31: an emit delivers to the callbacks registered when it started: every
\* one of them is invoked once per registration, one unsubscribed by an
\* earlier callback during the emit included, and a callback subscribed
\* during the emit is not invoked by it; an emit that starts later invokes it.
C31_EmitDeliversToSnapshot ==
  (last.op = "emit" /\ NoneEmits) =>
    /\ \A callback \in FunctionsOf(Subscribed) :
         Cardinality(NewCallsOf(callback)) =
           Cardinality(PositionsOf(callback, Subscribed))
    /\ \A callback \in FunctionsOf(hub.events[last.key]) \ FunctionsOf(Subscribed) :
         NewCallsOf(callback) = {}

\* C31 witness: during one emit a callback was unsubscribed by an earlier
\* callback and still invoked, and another was subscribed and not invoked.
C31_Witness ==
  /\ last.op = "emit"
  /\ NoneEmits
  /\ \E callback \in FunctionsOf(Subscribed) \ FunctionsOf(hub.events[last.key]) :
       /\ callback.wrapper = 0
       /\ NewCallsOf(callback) # {}
       /\ \E k \in 1 .. Len(NewCalls) :
            NewCalls[k].cb = "u" /\ k < CHOOSE m \in NewCallsOf(callback) : TRUE
  /\ \E callback \in FunctionsOf(hub.events[last.key]) \ FunctionsOf(Subscribed) :
       NewCallsOf(callback) = {}

====
